---- MODULE Spec2Model ----
(***************************************************************************)
(* Model of MongoDBConnection (src/mongo_connection_class.py): one         *)
(* instance, the driver handles it opens, and the calls made on it.        *)
(* The program is single-threaded and every method runs to completion, so  *)
(* each method is one action.  The driver (pymongo) is the environment:    *)
(* an open or a liveness check either returns or raises an exception of    *)
(* some class, chosen nondeterministically.                                *)
(***************************************************************************)
EXTENDS Integers, Sequences, FiniteSets, TLC

(* ---------------- bounds ---------------- *)
\* most calls of MongoClient(...) in one run
MaxOpens == 3
\* deepest nesting of `with` blocks on the instance
MaxDepth == 2
\* most td elements in a fetched page
MaxCells == 3

(* ---------------- values ---------------- *)
\* Python's None, for the uri argument, the environment and the stored uri
None == "None"
\* self._client = None
NoClient == 0

\* arguments given to the constructor: absent, empty, two connection strings
UriArgs == {None, "", "mongodb://a", "mongodb://b"}
\* os.environ.get("MONGODB_URI"): unset, set to empty, set to a string
EnvValues == {None, "", "mongodb://env"}
\* exceptions the body of a `with` block may raise
BodyErrors == {"KeyError", "ZeroDivisionError"}
\* database names passed to get_database
DbNames == {"sample_mflix", "other"}

\* exception classes the driver may raise during open or ping; all derive
\* from Exception, as every error of the driver does, so one of the two
\* except clauses of connect catches them
Causes == {"ConnectionFailure", "ServerSelectionTimeoutError",
           "OperationFailure", "InvalidURI"}
\* isinstance(e, ConnectionFailure): the class itself and its subclasses
IsConnectionFailure(cause) ==
    cause \in {"ConnectionFailure", "ServerSelectionTimeoutError"}

\* what the driver does in one connection attempt
Outcomes ==
    {[stage |-> "ok", cause |-> "none"]} \cup
    {[stage |-> s, cause |-> c] : s \in {"open", "ping"}, c \in Causes}

\* Python truth value of a uri: None and "" are falsy
Truthy(v) == v # None /\ v # ""

\* what a method returns: a client, or a database / collection on a client
Path(h, db, coll) == [client |-> h, db |-> db, coll |-> coll]
NoPath == Path(NoClient, "", "")

(* ---------------- pure models of the methods ---------------- *)

\* __init__ without the `is not None` test: falls back on any falsy argument
init_falsy(arg, e) ==
    LET consulted == ~Truthy(arg)
        u == IF Truthy(arg) THEN arg ELSE e
    IN  [uri |-> u, client |-> NoClient, envConsulted |-> consulted,
         error |-> IF ~Truthy(u) THEN "ValueError" ELSE "none"]

\* __init__ with the two sources swapped: the environment wins when set
init_envfirst(arg, e) ==
    LET u == IF e # None THEN e ELSE arg
    IN  [uri |-> u, client |-> NoClient, envConsulted |-> TRUE,
         error |-> IF ~Truthy(u) THEN "ValueError" ELSE "none"]

\* MongoDBConnection.__init__(uri): e is the value of MONGODB_URI
init(arg, e) ==
    LET consulted == arg = None
        u == IF arg # None THEN arg ELSE e
    IN  [uri |-> u, client |-> NoClient, envConsulted |-> consulted,
         error |-> IF ~Truthy(u) THEN "ValueError" ELSE "none"]

\* every failure reported as ConnectionError
Classify_one(cause) == "ConnectionError"

\* the except clauses of connect: which error a driver exception becomes
Classify(cause) ==
    IF IsConnectionFailure(cause) THEN "ConnectionError" ELSE "RuntimeError"

\* MongoClient() called without the stored uri: the driver's default host
Opened_default(d, u) ==
    [d EXCEPT !.openCalls = @ + 1, !.openArgs = Append(@, "mongodb://localhost")]

\* the driver after MongoClient(u) was called
Opened(d, u) ==
    [d EXCEPT !.openCalls = @ + 1, !.openArgs = Append(@, u)]

\* the liveness command issued a second time after the first
Pinged_twice(d, u) ==
    [Opened(d, u) EXCEPT !.handles = Append(@, [closes |-> 0, uri |-> u]),
                         !.pingCalls = @ + 2]

\* the driver after MongoClient(u) returned a handle and ping was issued
Pinged(d, u) ==
    [Opened(d, u) EXCEPT !.handles = Append(@, [closes |-> 0, uri |-> u]),
                         !.pingCalls = @ + 1]

\* connect that keeps the handle when the liveness check fails
connect_keep(c, u, d, oc) ==
    IF c # NoClient THEN
        [client |-> c, drv |-> d, kind |-> "ok", value |-> Path(c, "", ""),
         error |-> "none", cause |-> "none"]
    ELSE IF oc.stage = "open" THEN
        [client |-> NoClient, drv |-> Opened(d, u), kind |-> "raise",
         value |-> NoPath, error |-> Classify(oc.cause), cause |-> oc.cause]
    ELSE IF oc.stage = "ping" THEN
        [client |-> Len(d.handles) + 1, drv |-> Pinged(d, u), kind |-> "raise",
         value |-> NoPath, error |-> Classify(oc.cause), cause |-> oc.cause]
    ELSE
        [client |-> Len(d.handles) + 1, drv |-> Pinged(d, u), kind |-> "ok",
         value |-> Path(Len(d.handles) + 1, "", ""),
         error |-> "none", cause |-> "none"]

\* connect without the `is None` test: opens on every call
connect_reopen(c, u, d, oc) ==
    IF oc.stage = "open" THEN
        [client |-> NoClient, drv |-> Opened(d, u), kind |-> "raise",
         value |-> NoPath, error |-> Classify(oc.cause), cause |-> oc.cause]
    ELSE IF oc.stage = "ping" THEN
        [client |-> NoClient, drv |-> Pinged(d, u), kind |-> "raise",
         value |-> NoPath, error |-> Classify(oc.cause), cause |-> oc.cause]
    ELSE
        [client |-> Len(d.handles) + 1, drv |-> Pinged(d, u), kind |-> "ok",
         value |-> Path(Len(d.handles) + 1, "", ""),
         error |-> "none", cause |-> "none"]

\* MongoDBConnection.connect(): c the cached client, u the stored uri,
\* d the driver, oc what the driver does if an attempt is made
connect(c, u, d, oc) ==
    IF c # NoClient THEN
        [client |-> c, drv |-> d, kind |-> "ok", value |-> Path(c, "", ""),
         error |-> "none", cause |-> "none"]
    ELSE IF oc.stage = "open" THEN
        [client |-> NoClient, drv |-> Opened(d, u), kind |-> "raise",
         value |-> NoPath, error |-> Classify(oc.cause), cause |-> oc.cause]
    ELSE IF oc.stage = "ping" THEN
        [client |-> NoClient, drv |-> Pinged(d, u), kind |-> "raise",
         value |-> NoPath, error |-> Classify(oc.cause), cause |-> oc.cause]
    ELSE
        [client |-> Len(d.handles) + 1, drv |-> Pinged(d, u), kind |-> "ok",
         value |-> Path(Len(d.handles) + 1, "", ""),
         error |-> "none", cause |-> "none"]

\* the driver after h.close() was called
Closed(d, h) ==
    [d EXCEPT !.handles[h].closes = @ + 1, !.closeCalls = @ + 1]

\* close that leaves the closed handle in the cache
close_keep(c, d) ==
    IF c # NoClient
    THEN [client |-> c, drv |-> Closed(d, c), closed |-> c]
    ELSE [client |-> c, drv |-> d, closed |-> NoClient]

\* close that clears the cache without closing the handle
close_drop(c, d) ==
    [client |-> NoClient, drv |-> d, closed |-> NoClient]

\* MongoDBConnection.close(): closed is the handle whose close() was called
close(c, d) ==
    IF c # NoClient
    THEN [client |-> NoClient, drv |-> Closed(d, c), closed |-> c]
    ELSE [client |-> c, drv |-> d, closed |-> NoClient]

\* get_database that uses the cache as it is, without connect()
get_database_cached(c, u, d, oc, name) ==
    [client |-> c, drv |-> d, kind |-> "ok", value |-> Path(c, name, ""),
     error |-> "none", cause |-> "none"]

\* MongoDBConnection.get_database(db_name)
get_database(c, u, d, oc, name) ==
    LET r == connect(c, u, d, oc)
    IN  IF r.kind = "raise" THEN r
        ELSE [r EXCEPT !.value = Path(r.value.client, name, "")]

\* get_movies_collection on another database than sample_mflix
get_movies_collection_other(c, u, d, oc) ==
    LET r == get_database(c, u, d, oc, "other")
    IN  IF r.kind = "raise" THEN r
        ELSE [r EXCEPT !.value = Path(r.value.client, r.value.db, "movies")]

\* MongoDBConnection.get_movies_collection()
get_movies_collection(c, u, d, oc) ==
    LET r == get_database(c, u, d, oc, "sample_mflix")
    IN  IF r.kind = "raise" THEN r
        ELSE [r EXCEPT !.value = Path(r.value.client, r.value.db, "movies")]

\* __enter__ that opens a connection of its own on every entry
enter_reopen(c, u, d, oc) == connect_reopen(c, u, d, oc)

\* MongoDBConnection.__enter__()
enter(c, u, d, oc) == connect(c, u, d, oc)

\* __exit__ that forgets to close
exit_noclose(c, d) ==
    [client |-> c, drv |-> d, closed |-> NoClient, ret |-> None]

\* __exit__ that returns True, which makes `with` swallow the body's error
exit_suppress(c, d) ==
    LET r == close(c, d)
    IN  [client |-> r.client, drv |-> r.drv, closed |-> r.closed,
         ret |-> "True"]

\* MongoDBConnection.__exit__(exc_type, exc_val, exc_tb): ret is the value
\* it returns, None as the method has no return statement
exit(c, d) ==
    LET r == close(c, d)
    IN  [client |-> r.client, drv |-> r.drv, closed |-> r.closed,
         ret |-> None]

(* ---------------- scrape_task_links ---------------- *)
\* src/scrape_task_links.py.  Text is modelled by strings.  A page is the
\* sequence of its td elements in document order; of a td the model keeps
\* its class attribute and the href attributes of the a elements inside it,
\* in document order, None for an a element without href.

\* contest numbers given to scrape_task_links
Contests == {-10, -5, 0, 5, 42, 100, 999, 1000}
\* the class attribute findAll asks for
WantedClass == "text-center no-break"
\* class attributes of td elements
Classes == {WantedClass, "no-break"}
\* the a elements of a td: none, one without href, one, two
LinkLists == {<<>>, <<None>>, <<"/t/a">>, <<"/t/b", "/t/a">>}
Cells == [cls : Classes, links : LinkLists]
Pages == UNION {[1..k -> Cells] : k \in 0..MaxCells}
\* what requests.get does: returns the page, or raises
NetOutcomes == {"ok", "fail"}

\* one decimal digit as text
Digit(d) ==
    CASE d = 0 -> "0" [] d = 1 -> "1" [] d = 2 -> "2" [] d = 3 -> "3"
      [] d = 4 -> "4" [] d = 5 -> "5" [] d = 6 -> "6" [] d = 7 -> "7"
      [] d = 8 -> "8" [] d = 9 -> "9"

\* the decimal digits of a natural number
RECURSIVE Str(_)
Str(n) == IF n < 10 THEN Digit(n) ELSE Str(n \div 10) \o Digit(n % 10)

\* zeros put in front of s until it is w characters wide
RECURSIVE ZeroFill(_, _)
ZeroFill(s, w) == IF Len(s) >= w THEN s ELSE ZeroFill("0" \o s, w)

\* the format without the zero flag: no padding
Format03d_nopad(n) == IF n < 0 THEN "-" \o Str(-n) ELSE Str(n)

\* f"{n:03d}": sign first, then zeros up to a total width of 3
Format03d(n) ==
    IF n < 0 THEN "-" \o ZeroFill(Str(-n), 2) ELSE ZeroFill(Str(n), 3)

\* the address requests.get is called with
ContestUrl(n) == "http://atcoder.jp/contests/abc" \o Format03d(n) \o "/tasks"

\* soup.findAll("td", attrs={"class": ...}) filtered by `if td.find("a")`:
\* the indices of the cells that are kept, in document order
RECURSIVE Kept(_, _)
Kept(page, i) ==
    IF i > Len(page) THEN <<>>
    ELSE IF page[i].cls = WantedClass /\ page[i].links # <<>>
         THEN <<i>> \o Kept(page, i + 1)
         ELSE Kept(page, i + 1)

\* td.find("a").get("href"): the href of the first a element, or None
FirstHref(cell) == cell.links[1]

\* scrape_task_links(n) when requests.get does net and, if it returns, the
\* page is page: str + None raises TypeError in the list comprehension
scrape_task_links(n, net, page) ==
    LET k == Kept(page, 1) IN
    IF net = "fail" THEN
        [url |-> ContestUrl(n), kind |-> "raise",
         error |-> "RequestException", urls |-> <<>>]
    ELSE IF \E j \in 1..Len(k) : FirstHref(page[k[j]]) = None THEN
        [url |-> ContestUrl(n), kind |-> "raise",
         error |-> "TypeError", urls |-> <<>>]
    ELSE
        [url |-> ContestUrl(n), kind |-> "ok", error |-> "none",
         urls |-> [j \in 1..Len(k) |->
                      "https://atcoder.jp" \o FirstHref(page[k[j]])]]

(* ---------------- state ---------------- *)
VARIABLES
    scr,          \* the call of scrape_task_links: its arguments and outcome
    env,          \* MONGODB_URI in the process environment
    status,       \* "new": not constructed; "failed": __init__ raised; "ready"
    uriArg,       \* the argument of the last constructor call
    uri,          \* self._uri
    envConsulted, \* whether __init__ evaluated os.environ.get
    client,       \* self._client: NoClient or the index of a driver handle
    drv,          \* the driver: handles it returned and calls it received
    scopes,       \* stack of the handles yielded to the open `with` blocks
    result,       \* what the last call returned or raised
    live          \* history: an attempt succeeded and close() was not
                  \* called since

vars == <<scr, env, status, uriArg, uri, envConsulted, client, drv, scopes,
          result, live>>

\* the variables of the connection
connVars == <<env, status, uriArg, uri, envConsulted, client, drv, scopes,
              result, live>>

\* no call of scrape_task_links is made
NoScrape == [pc |-> "none", contest |-> 0, page |-> <<>>, net |-> "none",
             url |-> "", kind |-> "none", error |-> "none", urls |-> <<>>]

\* the record kept of the last call: what it returned or raised, the handle
\* it closed, the handle of the scope it left and how the body ended, the
\* cached client before the call, and what the driver did in its attempt
Res(op, kind, value, error, cause, closed, scope, body, before, oc) ==
    [op |-> op, kind |-> kind, value |-> value, error |-> error,
     cause |-> cause, closed |-> closed, scope |-> scope, body |-> body,
     before |-> before, oc |-> oc]

\* no attempt was made in the call
NoAttempt == [stage |-> "none", cause |-> "none"]

NoRes == Res("none", "none", NoPath, "none", "none", NoClient, NoClient,
             "none", NoClient, NoAttempt)

\* what the driver did in a call that was given outcome oc
Attempt(oc) == IF client = NoClient THEN oc ELSE NoAttempt

NoDriver == [handles |-> <<>>, openCalls |-> 0, pingCalls |-> 0,
             closeCalls |-> 0, openArgs |-> <<>>]

Init ==
    /\ scr = NoScrape
    /\ env \in EnvValues
    /\ status = "new"
    /\ uriArg = None
    /\ uri = None
    /\ envConsulted = FALSE
    /\ client = NoClient
    /\ drv = NoDriver
    /\ scopes = <<>>
    /\ result = NoRes
    /\ live = FALSE

\* an attempt is made and the bound on opens allows it, or none is needed
CanCall == status = "ready" /\ (client # NoClient \/ drv.openCalls < MaxOpens)

\* the attempt of this call went through open and ping
Succeeds(oc) == client = NoClient /\ oc.stage = "ok"

(* ---------------- actions ---------------- *)

\* MongoDBConnection(arg)
Construct ==
    /\ status \in {"new", "failed"}
    /\ \E arg \in UriArgs :
        LET r == init(arg, env) IN
        /\ uriArg' = arg
        /\ uri' = r.uri
        /\ envConsulted' = r.envConsulted
        /\ client' = r.client
        /\ status' = IF r.error = "none" THEN "ready" ELSE "failed"
        /\ result' = Res("init", IF r.error = "none" THEN "ok" ELSE "raise",
                         NoPath, r.error, "none", NoClient, NoClient, "none",
                         NoClient, NoAttempt)
    /\ UNCHANGED <<scr, env, drv, scopes, live>>

\* conn.connect()
Connect ==
    /\ CanCall
    /\ \E oc \in Outcomes :
        LET r == connect(client, uri, drv, oc) IN
        /\ client' = r.client
        /\ drv' = r.drv
        /\ result' = Res("connect", r.kind, r.value, r.error, r.cause,
                         NoClient, NoClient, "none", client, Attempt(oc))
        /\ live' = (live \/ Succeeds(oc))
    /\ UNCHANGED <<scr, env, status, uriArg, uri, envConsulted, scopes>>

\* conn.close()
Close ==
    /\ status = "ready"
    /\ LET r == close(client, drv) IN
        /\ client' = r.client
        /\ drv' = r.drv
        /\ result' = Res("close", "ok", NoPath, "none", "none", r.closed,
                         NoClient, "none", client, NoAttempt)
    /\ live' = FALSE
    /\ UNCHANGED <<scr, env, status, uriArg, uri, envConsulted, scopes>>

\* conn.get_database(name)
GetDatabase ==
    /\ CanCall
    /\ \E oc \in Outcomes, name \in DbNames :
        LET r == get_database(client, uri, drv, oc, name) IN
        /\ client' = r.client
        /\ drv' = r.drv
        /\ result' = Res("get_database", r.kind, r.value, r.error, r.cause,
                         NoClient, NoClient, "none", client, Attempt(oc))
        /\ live' = (live \/ Succeeds(oc))
    /\ UNCHANGED <<scr, env, status, uriArg, uri, envConsulted, scopes>>

\* conn.get_movies_collection()
GetMoviesCollection ==
    /\ CanCall
    /\ \E oc \in Outcomes :
        LET r == get_movies_collection(client, uri, drv, oc) IN
        /\ client' = r.client
        /\ drv' = r.drv
        /\ result' = Res("get_movies_collection", r.kind, r.value, r.error,
                         r.cause, NoClient, NoClient, "none", client, Attempt(oc))
        /\ live' = (live \/ Succeeds(oc))
    /\ UNCHANGED <<scr, env, status, uriArg, uri, envConsulted, scopes>>

\* `with conn as h:` is entered: __enter__ runs, the body starts if it returns
ScopeEnter ==
    /\ CanCall
    /\ Len(scopes) < MaxDepth
    /\ \E oc \in Outcomes :
        LET r == enter(client, uri, drv, oc) IN
        /\ client' = r.client
        /\ drv' = r.drv
        /\ scopes' = IF r.kind = "ok" THEN Append(scopes, r.value.client)
                     ELSE scopes
        /\ result' = Res("enter", r.kind, r.value, r.error, r.cause,
                         NoClient, NoClient, "none", client, Attempt(oc))
        /\ live' = (live \/ Succeeds(oc))
    /\ UNCHANGED <<scr, env, status, uriArg, uri, envConsulted>>

\* the innermost `with` block is left, its body having returned or raised
\* exc: __exit__ runs, and the `with` statement re-raises exc unless
\* __exit__ returned a true value.  The record keeps exc as the cause and
\* what reaches the caller as the error.
ScopeExit ==
    /\ status = "ready"
    /\ scopes # <<>>
    /\ \E body \in {"return", "raise"} :
       \E exc \in IF body = "raise" THEN BodyErrors ELSE {"none"} :
        LET r == exit(client, drv)
            propagates == body = "raise" /\ ~Truthy(r.ret)
        IN
        /\ client' = r.client
        /\ drv' = r.drv
        /\ scopes' = SubSeq(scopes, 1, Len(scopes) - 1)
        /\ result' = Res("exit", IF propagates THEN "raise" ELSE "return",
                         NoPath, IF propagates THEN exc ELSE "none",
                         exc, r.closed, scopes[Len(scopes)], body, client,
                         NoAttempt)
    /\ live' = FALSE
    /\ UNCHANGED <<scr, env, status, uriArg, uri, envConsulted>>

Next ==
    \/ Construct
    \/ Connect
    \/ Close
    \/ GetDatabase
    \/ GetMoviesCollection
    \/ ScopeEnter
    \/ ScopeExit

Spec == Init /\ [][Next]_vars

(* ---------------- the scraper's specification ---------------- *)

\* a call of scrape_task_links is about to be made on some contest number;
\* no connection object exists
ScrapeInit ==
    /\ scr \in {[NoScrape EXCEPT !.pc = "call", !.contest = n] :
                   n \in Contests}
    /\ env = None
    /\ status = "new"
    /\ uriArg = None
    /\ uri = None
    /\ envConsulted = FALSE
    /\ client = NoClient
    /\ drv = NoDriver
    /\ scopes = <<>>
    /\ result = NoRes
    /\ live = FALSE

\* scrape_task_links(scr.contest) runs: the site answers with some page or
\* the request raises
Scrape ==
    /\ scr.pc = "call"
    /\ \E net \in NetOutcomes :
       \E page \in IF net = "ok" THEN Pages ELSE {<<>>} :
        LET r == scrape_task_links(scr.contest, net, page) IN
        scr' = [pc |-> "done", contest |-> scr.contest, page |-> page,
                net |-> net, url |-> r.url, kind |-> r.kind,
                error |-> r.error, urls |-> r.urls]
    /\ UNCHANGED connVars

ScrapeNext == Scrape

ScrapeSpec == ScrapeInit /\ [][ScrapeNext]_vars

(* ---------------- helpers of the properties ---------------- *)

\* the handles the driver returned
Handles == 1..Len(drv.handles)
\* the handles that were opened and on which close() was never called
Unclosed == {h \in Handles : drv.handles[h].closes = 0}
\* the calls that go through connect()
ConnectOps == {"connect", "get_database", "get_movies_collection", "enter"}
\* the two errors connect() raises
ConnectErrors == {"ConnectionError", "RuntimeError"}

(* ---------------- C1 ---------------- *)
\* C1: between calls, the cached client is non-null exactly when some
\* connection attempt has succeeded and close() was not called since.
C1_ClientIffLive ==
    status = "ready" => ((client # NoClient) <=> live)

\* a liveness check failed, a later attempt succeeded after a close
C1_Witness ==
    /\ client # NoClient
    /\ live
    /\ drv.closeCalls >= 1
    /\ Len(drv.handles) > drv.closeCalls + 1

(* ---------------- C2 ---------------- *)
\* C2: at most one handle that the instance opened is not closed, also after
\* a connect() whose open succeeded and whose liveness check failed.
C2_AtMostOneLiveHandle ==
    Cardinality(Unclosed) <= 1

(* ---------------- C3 ---------------- *)
\* C3: when a scope has been left, by return or by an error of its body, the
\* handle that its entry yielded has been closed exactly once; no handle is
\* ever closed twice, whatever the state before the scope and its nesting.
C3_ScopeClosesOnce ==
    /\ result.op = "exit" =>
          /\ result.scope \in Handles
          /\ drv.handles[result.scope].closes = 1
    /\ \A h \in Handles : drv.handles[h].closes <= 1

\* the outer of two nested scopes was left by an error, after the inner one
\* had already closed the handle they share
C3_Witness ==
    /\ result.op = "exit"
    /\ result.body = "raise"
    /\ result.closed = NoClient
    /\ result.before = NoClient
    /\ scopes = <<>>

(* ---------------- C4 ---------------- *)
\* C4: a connect() that fails at open or at the liveness check raises one of
\* the two errors and leaves the cache empty, as it was; the next connect()
\* opens again and, if it succeeds, returns a handle that did not exist
\* before it.
C4_FailedConnectNoChange ==
    /\ [](result.op = "connect" /\ result.kind = "raise" =>
            /\ result.before = NoClient
            /\ client = NoClient
            /\ result.error \in ConnectErrors
            /\ result.oc.stage \in {"open", "ping"})
    /\ [][(result.op = "connect" /\ result.kind = "raise"
           /\ result'.op = "connect") =>
            /\ uri' = uri
            /\ drv'.openCalls = drv.openCalls + 1
            /\ result'.kind = "ok" =>
                  /\ result'.value.client \notin Handles
                  /\ result'.value.client = client']_vars

\* a connect() succeeded right after a liveness check had failed
C4_Witness ==
    /\ result.op = "connect"
    /\ result.kind = "ok"
    /\ result.before = NoClient
    /\ Len(drv.handles) >= 2
    /\ drv.closeCalls = 0

(* ---------------- C5 ---------------- *)
\* C5: once an attempt has succeeded and until close() is called, connect()
\* returns the cached handle and the driver sees no call at all.
C5_ConnectIdempotent ==
    /\ [](result.op = "connect" /\ result.kind = "ok" =>
            result.value = Path(client, "", ""))
    /\ [][(live /\ result'.op = "connect") =>
            /\ result'.kind = "ok"
            /\ result'.value.client = client
            /\ client' = client
            /\ drv'.openCalls = drv.openCalls
            /\ drv' = drv]_vars

\* connect() was called with a handle cached
C5_Witness ==
    /\ result.op = "connect"
    /\ result.kind = "ok"
    /\ result.before # NoClient
    /\ result.value.client = result.before

(* ---------------- C6 ---------------- *)
\* C6: with the cache empty (as close() leaves it) a successful connect()
\* makes exactly one more open call and returns a handle that no earlier
\* open returned; whatever a call returns is never a closed handle.
C6_CloseThenConnectReopens ==
    /\ [](result.kind = "ok" /\ result.value.client # NoClient =>
            /\ result.value.client \in Handles
            /\ drv.handles[result.value.client].closes = 0)
    /\ [][(result.op = "close" /\ result.closed # NoClient
           /\ result'.op = "connect" /\ result'.kind = "ok") =>
            /\ drv'.openCalls = drv.openCalls + 1
            /\ result'.value.client # result.closed
            /\ result'.value.client \notin Handles
            /\ client' = result'.value.client]_vars

\* connect() succeeded on an instance whose earlier handle was closed
C6_Witness ==
    /\ result.op = "connect"
    /\ result.kind = "ok"
    /\ result.before = NoClient
    /\ drv.closeCalls >= 1
    /\ drv.handles[1].closes = 1
    /\ client = 2

(* ---------------- C7 ---------------- *)
\* C7: an attempt in which open or the liveness check raised makes connect()
\* raise ConnectionError if the driver's exception is a ConnectionFailure
\* and RuntimeError otherwise, with that exception as its cause; connect()
\* raises nothing else.
C7_FailureClassified ==
    /\ result.oc.stage \in {"open", "ping"} =>
          /\ result.kind = "raise"
          /\ result.cause = result.oc.cause
          /\ result.error = IF IsConnectionFailure(result.oc.cause)
                            THEN "ConnectionError" ELSE "RuntimeError"
    /\ (result.op \in ConnectOps /\ result.kind = "raise") =>
          /\ result.error \in ConnectErrors
          /\ result.oc.stage \in {"open", "ping"}

\* the liveness check raised an exception that is no ConnectionFailure
C7_Witness ==
    /\ result.op = "connect"
    /\ result.oc = [stage |-> "ping", cause |-> "OperationFailure"]
    /\ result.error = "RuntimeError"

(* ---------------- C8 ---------------- *)
\* C8 as stated: construction fails exactly when neither the argument nor
\* the environment variable is non-empty, and otherwise stores the argument
\* when one is given and the environment value when it is absent.
C8_Original ==
    result.op = "init" =>
        IF ~Truthy(uriArg) /\ ~Truthy(env)
        THEN result.kind = "raise" /\ result.error = "ValueError"
        ELSE /\ result.kind = "ok"
             /\ uri = IF uriArg # None THEN uriArg ELSE env

\* C8 amended: construction fails exactly when the value it resolves, the
\* argument unless it is None and the environment value otherwise, is None
\* or empty; an explicit empty argument fails whatever the environment.
C8_ResolvedUri ==
    result.op = "init" =>
        LET resolved == IF uriArg # None THEN uriArg ELSE env IN
        IF ~Truthy(resolved)
        THEN /\ result.kind = "raise"
             /\ result.error = "ValueError"
             /\ status = "failed"
        ELSE /\ result.kind = "ok"
             /\ status = "ready"
             /\ uri = resolved

\* an empty argument was given while the environment variable was set
C8_Witness ==
    /\ result.op = "init"
    /\ uriArg = ""
    /\ Truthy(env)
    /\ status = "failed"

(* ---------------- C9 ---------------- *)
\* C9: with a non-empty explicit uri, construction does not read the
\* environment variable: it succeeds and stores the argument, and would do
\* the same under every value of the variable.
C9_EnvNotConsulted ==
    (result.op = "init" /\ Truthy(uriArg)) =>
        /\ envConsulted = FALSE
        /\ status = "ready"
        /\ uri = uriArg
        /\ \A e \in EnvValues :
              /\ init(uriArg, e).error = "none"
              /\ init(uriArg, e).uri = uri
              /\ init(uriArg, e).envConsulted = FALSE

\* an explicit uri was given while the environment variable held another
C9_Witness ==
    /\ result.op = "init"
    /\ uriArg = "mongodb://a"
    /\ env = "mongodb://env"
    /\ status = "ready"

(* ---------------- C10 ---------------- *)
\* C10: close() with nothing cached changes nothing and calls nothing;
\* close() with a handle cached calls close on that handle once and empties
\* the cache; no handle is closed twice.
C10_CloseIdempotent ==
    /\ [](\A h \in Handles : drv.handles[h].closes <= 1)
    /\ [][result'.op = "close" =>
            /\ result'.kind = "ok"
            /\ client' = NoClient
            /\ IF client = NoClient
               THEN drv' = drv /\ result'.closed = NoClient
               ELSE /\ drv'.closeCalls = drv.closeCalls + 1
                    /\ drv'.handles[client].closes = 1
                    /\ result'.closed = client]_vars

\* close() was called with nothing cached, after a handle had been closed
C10_Witness ==
    /\ result.op = "close"
    /\ result.before = NoClient
    /\ result.closed = NoClient
    /\ drv.closeCalls >= 1

(* ---------------- C11 ---------------- *)
\* C11: get_database(name) does to the instance and the driver what
\* connect() does: with nothing cached it opens, pings and leaves the handle
\* cached before it returns the database on it; with a handle cached it
\* calls nothing; when the attempt fails it raises connect()'s error with
\* its cause, returns nothing and leaves the cache empty.
C11_GetDatabaseConnects ==
    [][result'.op = "get_database" =>
        LET r == connect(client, uri, drv, result'.oc) IN
        /\ client' = r.client
        /\ drv' = r.drv
        /\ result'.kind = r.kind
        /\ result'.error = r.error
        /\ result'.cause = r.cause
        /\ IF result'.kind = "ok"
           THEN /\ client' # NoClient
                /\ result'.value.client = client'
                /\ result'.value.db \in DbNames
                /\ result'.value.coll = ""
                /\ IF client = NoClient
                   THEN /\ drv'.openCalls = drv.openCalls + 1
                        /\ drv'.pingCalls = drv.pingCalls + 1
                        /\ client' \notin Handles
                   ELSE client' = client /\ drv' = drv
           ELSE /\ client = NoClient
                /\ client' = NoClient
                /\ result'.value = NoPath
                /\ result'.error \in ConnectErrors]_vars

\* get_database was called with nothing cached and the liveness check
\* failed
C11_Witness ==
    /\ result.op = "get_database"
    /\ result.kind = "raise"
    /\ result.oc.stage = "ping"
    /\ result.error = "ConnectionError"
    /\ client = NoClient

(* ---------------- C12 ---------------- *)
\* C12: get_movies_collection() gives what get_database("sample_mflix")
\* gives in the same state under the same behaviour of the driver: the same
\* error, or the collection "movies" of that database on the same handle,
\* and the same cache and driver calls afterwards.
C12_MoviesIsGetDatabase ==
    [][result'.op = "get_movies_collection" =>
        LET r == get_database(client, uri, drv, result'.oc, "sample_mflix") IN
        /\ client' = r.client
        /\ drv' = r.drv
        /\ result'.kind = r.kind
        /\ result'.error = r.error
        /\ result'.cause = r.cause
        /\ result'.value = IF r.kind = "ok"
                           THEN Path(r.value.client, "sample_mflix", "movies")
                           ELSE NoPath]_vars

\* get_movies_collection returned the collection on a freshly opened handle
C12_Witness ==
    /\ result.op = "get_movies_collection"
    /\ result.kind = "ok"
    /\ result.before = NoClient
    /\ result.value = Path(client, "sample_mflix", "movies")

(* ---------------- C15 ---------------- *)
\* C15: a call that goes through connect() with nothing cached makes one
\* open call and, unless the open raised, one liveness check; with a handle
\* cached it makes neither; so the liveness checks are as many as the
\* handles the driver returned.
C15_OnePingPerOpen ==
    /\ [](drv.pingCalls = Len(drv.handles) /\ drv.pingCalls <= drv.openCalls)
    /\ [][result'.op \in ConnectOps =>
            IF client = NoClient
            THEN /\ drv'.openCalls = drv.openCalls + 1
                 /\ drv'.pingCalls = drv.pingCalls +
                        (IF result'.oc.stage = "open" THEN 0 ELSE 1)
            ELSE /\ drv'.openCalls = drv.openCalls
                 /\ drv'.pingCalls = drv.pingCalls]_vars

\* opens that raised, a liveness check that failed and one that passed
C15_Witness ==
    /\ drv.openCalls = 3
    /\ drv.pingCalls = 2
    /\ client = 2
    /\ result.op = "connect"
    /\ result.before # NoClient

(* ---------------- C16 ---------------- *)
\* C16: construction makes no driver call and leaves the cache empty; the
\* stored uri is the one resolved at construction after every later call,
\* and every open was made with it.
C16_UriImmutable ==
    /\ [](result.op = "init" => drv = NoDriver /\ client = NoClient)
    /\ [](status = "ready" =>
            /\ uri = (IF uriArg # None THEN uriArg ELSE env)
            /\ \A i \in 1..Len(drv.openArgs) : drv.openArgs[i] = uri
            /\ \A h \in Handles : drv.handles[h].uri = uri)
    /\ [][status = "ready" => uri' = uri /\ status' = "ready"]_vars

\* opens were made, one of them failing, on an instance built from the
\* environment variable
C16_Witness ==
    /\ status = "ready"
    /\ uriArg = None
    /\ uri = "mongodb://env"
    /\ Len(drv.openArgs) = 3
    /\ Len(drv.handles) = 2
    /\ drv.closeCalls >= 1

(* ---------------- C17 ---------------- *)
\* C17: after a scope is left nothing is cached; a scope entered with a
\* handle cached yields that handle and calls nothing on the driver, and
\* leaving a scope with a handle cached closes that handle, so the handle
\* the scope yielded has been closed once.
C17_ScopeExitUninitialized ==
    /\ [](result.op = "exit" =>
            /\ client = NoClient
            /\ drv.handles[result.scope].closes = 1)
    /\ [](result.op = "enter" /\ result.before # NoClient =>
            /\ result.kind = "ok"
            /\ result.value.client = result.before
            /\ client = result.before
            /\ scopes[Len(scopes)] = result.before)
    /\ [][(result'.op = "enter" /\ client # NoClient) => drv' = drv]_vars
    /\ [][(result'.op = "exit" /\ client # NoClient) =>
            /\ result'.closed = client
            /\ drv'.closeCalls = drv.closeCalls + 1
            /\ drv'.handles[client].closes = 1]_vars

\* a scope entered on an already connected instance was left and closed
\* the handle that was cached before it
C17_Witness ==
    /\ result.op = "exit"
    /\ result.closed = 1
    /\ result.scope = 1
    /\ drv.openCalls = 1
    /\ scopes = <<>>
    /\ client = NoClient

(* ---------------- C18 ---------------- *)
\* C18: when the body of a scope raises, __exit__ calls close() and the
\* error that reaches the caller is the one the body raised; when connect()
\* fails at scope entry no scope is opened, so neither the body nor close()
\* runs, connect()'s error reaches the caller and nothing is cached.
C18_ScopeErrorsPropagate ==
    /\ [](result.op = "exit" =>
            IF result.body = "raise"
            THEN /\ result.kind = "raise"
                 /\ result.cause \in BodyErrors
                 /\ result.error = result.cause
            ELSE result.kind = "return" /\ result.error = "none")
    /\ [][result'.op = "exit" =>
            /\ client' = NoClient
            /\ result'.closed = client
            /\ drv'.closeCalls = drv.closeCalls +
                   (IF client # NoClient THEN 1 ELSE 0)]_vars
    /\ [][(result'.op = "enter" /\ result'.kind = "raise") =>
            /\ scopes' = scopes
            /\ drv'.closeCalls = drv.closeCalls
            /\ drv'.handles = drv.handles \/
                  /\ Len(drv'.handles) = Len(drv.handles) + 1
                  /\ SubSeq(drv'.handles, 1, Len(drv.handles)) = drv.handles
            /\ client' = NoClient
            /\ result'.oc.stage \in {"open", "ping"}
            /\ result'.cause = result'.oc.cause
            /\ result'.error = Classify(result'.oc.cause)]_vars

\* a scope whose body raised was left and closed its handle, after an
\* earlier entry had failed
C18_Witness ==
    /\ result.op = "exit"
    /\ result.body = "raise"
    /\ result.error = "KeyError"
    /\ result.closed # NoClient
    /\ drv.openCalls > Len(drv.handles)
    /\ drv.closeCalls = 1

(* ---------------- C13 ---------------- *)
\* the td elements of the fetched page that have the wanted class and hold
\* at least one link
C13_Linked ==
    {i \in 1..Len(scr.page) :
        scr.page[i].cls = WantedClass /\ scr.page[i].links # <<>>}

\* the j-th of them in document order
C13_Nth(j) ==
    CHOOSE i \in C13_Linked : Cardinality({m \in C13_Linked : m < i}) = j - 1

\* C13: for every fetched page the call returns, and returns one address per
\* td element of the wanted class that holds a link, in document order,
\* duplicates kept: the site origin followed by the href of that link; the
\* empty sequence when there is no such element.
C13_OneUrlPerLinkedCell ==
    (scr.pc = "done" /\ scr.net = "ok") =>
        /\ scr.kind = "ok"
        /\ Len(scr.urls) = Cardinality(C13_Linked)
        /\ \A j \in 1..Len(scr.urls) :
              scr.urls[j] =
                  "https://atcoder.jp" \o scr.page[C13_Nth(j)].links[1]

(* ---------------- C14 ---------------- *)
\* C14 as stated: for every integer the address fetched has the path
\* segment abc followed by the number with zeros in front up to 3 digits.
C14_Original ==
    scr.pc = "done" =>
        scr.url = "http://atcoder.jp/contests/abc"
                  \o (IF scr.contest < 0
                      THEN "-" \o ZeroFill(Str(-scr.contest), 3)
                      ELSE ZeroFill(Str(scr.contest), 3))
                  \o "/tasks"

\* C14 amended: for a number that is not negative the segment is abc
\* followed by its digits, with zeros in front when they are fewer than 3;
\* for a negative number the minus sign counts in the width of 3, so the
\* segment is abc- followed by the digits with a zero in front when there
\* is only one.
C14_PaddedSegment ==
    scr.pc = "done" =>
        LET n == scr.contest
            seg == CASE n >= 100 -> Str(n)
                     [] n >= 10 /\ n < 100 -> "0" \o Str(n)
                     [] n >= 0 /\ n < 10 -> "00" \o Str(n)
                     [] n < 0 /\ n > -10 -> "-0" \o Str(-n)
                     [] n <= -10 -> "-" \o Str(-n)
        IN  scr.url = "http://atcoder.jp/contests/abc" \o seg \o "/tasks"

\* a negative contest number was scraped
C14_Witness ==
    /\ scr.pc = "done"
    /\ scr.contest = -5
    /\ scr.url = "http://atcoder.jp/contests/abc-05/tasks"

====
